---- MODULE Spec2Model ----
(***************************************************************************)
(* Model of plugins/modules/identity/keycloak/keycloak_user.py: one        *)
(* invocation of main() reconciles a single Keycloak user against the      *)
(* parameters of the task.  An invocation is split at its gateway calls    *)
(* (the KeycloakAPI methods), which are the only points where it touches   *)
(* the remote realm.  The KeycloakAPI class and camel() live in            *)
(* module_utils, outside the module file; they are modelled from the       *)
(* specification (a provider that stores the body it is sent, assigns the  *)
(* identifier on creation and enforces unique usernames).                  *)
(* The diff-mode output (result["diff"]) is presentation only and is not   *)
(* modelled.  Of the user parameters, last_name and required_actions take  *)
(* the path of first_name (their camelCase name differs from the parameter *)
(* name) and credentials takes the path of email, so tasks are drawn over  *)
(* id, name, email, first_name, enabled, email_verified and attributes.    *)
(***************************************************************************)
EXTENDS Integers, Sequences, FiniteSets, TLC

\* ------------------------------------------------------------------ bounds
\* number of identifiers the provider hands out before the model stops
\* starting new invocations
MaxIds == 2

\* ------------------------------------------------------------ input domains
Ids == 1..MaxIds
Names == {"drstrange"}
Emails == {"x@y.com"}
FirstNames == {"Stephen"}
States == {"present", "absent"}

\* an attribute value as the caller passes it: a bare scalar or a list
AttrScalar(s) == [list |-> FALSE, s |-> s, l |-> << >>]
AttrList(l) == [list |-> TRUE, s |-> "", l |-> l]
AttributeArgs == { ("a" :> AttrScalar("v1")), ("a" :> AttrList(<<"v1">>)) }

\* the invocations of the sequential specification / of the racing one
SeqProcs == {1}
Procs == {1, 2}

\* the empty dict; also stands for None where the code turns None into {}
EmptyDict == << >>

\* either leave parameter k out, or supply one of the values V
Opt(k, V) == {EmptyDict} \cup { (k :> v) : v \in V }

VARIABLES remote, nextId, pc, args, module_params, check_mode, before_user,
          changeset, desired_user, result, calls, prev, remote0

vars == <<remote, nextId, pc, args, module_params, check_mode, before_user,
          changeset, desired_user, result, calls, prev, remote0>>

\* --------------------------------------------------------------- helpers
\* d.update(e): the keys of e overlaid on d
DictUpdate(d, e) == e @@ d

\* d restricted to the keys in K
Restrict(d, K) == [k \in K |-> d[k]]

\* camel() of module_utils: snake_case to camelCase
camel(words) ==
    CASE words = "first_name" -> "firstName"
      [] words = "last_name" -> "lastName"
      [] words = "email_verified" -> "emailVerified"
      [] words = "required_actions" -> "requiredActions"
      [] words = "user_groups" -> "userGroups"
      [] OTHER -> words

\* keycloak_argument_spec(): connection and authentication parameters
keycloak_argument_spec ==
    {"auth_keycloak_url", "auth_client_id", "auth_realm", "auth_client_secret",
     "auth_username", "auth_password", "validate_certs", "token",
     "connection_timeout", "http_agent"}

\* mutant: first_name is given a default as well
ArgSpecDefaults_FirstName ==
    ("state" :> "present") @@ ("realm" :> "master")
        @@ ("enabled" :> TRUE) @@ ("email_verified" :> TRUE) @@ ("first_name" :> "")

\* defaults AnsibleModule fills in for parameters the caller leaves out
ArgSpecDefaults ==
    ("state" :> "present") @@ ("realm" :> "master")
        @@ ("enabled" :> TRUE) @@ ("email_verified" :> TRUE)

AnsibleModule(a) == a @@ ArgSpecDefaults

\* mutant: attribute values are passed on as the caller wrote them
NormalizeValue_Identity(val) == val

\* lines 390-394: every attribute value becomes a list
NormalizeValue(val) == IF ~val.list THEN AttrList(<<val.s>>) ELSE val

NormalizeAttributes(params) ==
    IF "attributes" \in DOMAIN params
    THEN [params EXCEPT !["attributes"] =
              [key \in DOMAIN @ |-> NormalizeValue(@[key])]]
    ELSE params

\* lines 397-402: the parameters that describe the user
user_params(params) ==
    { x \in DOMAIN params : x \notin keycloak_argument_spec \cup {"state", "realm"} }

\* mutant: name is camelCased like every other parameter
RemoteField_NoSubst(param) ==
    IF param = "user_groups" THEN camel("groups") ELSE camel(param)

\* lines 419-424: the remote field a parameter is written to
RemoteField(param) ==
    IF param = "name" THEN camel("username")
    ELSE IF param = "user_groups" THEN camel("groups")
    ELSE camel(param)

\* mutant: a parameter the fetched resource has no key for is taken as unchanged
InChangeset_OnlyIfPresent(param, params, before) ==
    \/ param = "name"
    \/ param = "user_groups"
    \/ IF param \in DOMAIN before THEN params[param] # before[param] ELSE FALSE

\* line 418 and lines 419-424: does the parameter enter the changeset
InChangeset(param, params, before) ==
    \/ param = "name"
    \/ param = "user_groups"
    \/ IF param \in DOMAIN before THEN params[param] # before[param] ELSE TRUE

\* lines 414-424
BuildChangeset(params, before) ==
    LET included == { x \in user_params(params) : InChangeset(x, params, before) }
        fields == { RemoteField(x) : x \in included }
    IN  [f \in fields |-> params[CHOOSE x \in included : RemoteField(x) = f]]

\* mutant: the changeset alone, not laid over the fetched resource
DesiredUser_NoBase(before, cs) == cs

\* lines 427-428
DesiredUser(before, cs) == DictUpdate(before, cs)

\* ------------------------------------------------- gateway (KeycloakAPI)
NameMatches(realm, username) == { i \in DOMAIN realm : realm[i]["username"] = username }

get_user_by_name(realm, username) ==
    IF NameMatches(realm, username) = {} THEN EmptyDict
    ELSE realm[CHOOSE i \in NameMatches(realm, username) : TRUE]

get_user_by_userid(realm, uid) ==
    IF uid \in DOMAIN realm THEN realm[uid] ELSE EmptyDict

\* fields the provider owns
DefaultAccess == [manage |-> TRUE, view |-> TRUE]

ServerFields(newid) == ("id" :> newid) @@ ("access" :> DefaultAccess)

CreateAccepted(realm, body) ==
    /\ "username" \in DOMAIN body
    /\ NameMatches(realm, body["username"]) = {}

create_user(realm, body, newid) == (newid :> (ServerFields(newid) @@ body)) @@ realm

UpdateAccepted(realm, body) ==
    /\ "id" \in DOMAIN body
    /\ body["id"] \in DOMAIN realm
    /\ "username" \in DOMAIN body
    /\ NameMatches(realm, body["username"]) \subseteq {body["id"]}

update_user(realm, body) == (body["id"] :> body) @@ realm

DeleteAccepted(realm, uid) == uid \in DOMAIN realm

delete_user(realm, uid) == Restrict(realm, DOMAIN realm \ {uid})

Call(op, arg) == [op |-> op, arg |-> arg]

MutatingOps == {"create", "update", "delete"}

\* -------------------------------------------------------------- the state
\* line 371
InitialResult == [changed |-> FALSE, msg |-> "", user |-> ""]

\* no earlier run of the same task is remembered
NoPrev == [valid |-> FALSE]

Init ==
    /\ remote = EmptyDict
    /\ nextId = 1
    /\ pc = [p \in Procs |-> "idle"]
    /\ args = [p \in Procs |-> EmptyDict]
    /\ module_params = [p \in Procs |-> EmptyDict]
    /\ check_mode = [p \in Procs |-> FALSE]
    /\ before_user = [p \in Procs |-> EmptyDict]
    /\ changeset = [p \in Procs |-> EmptyDict]
    /\ desired_user = [p \in Procs |-> EmptyDict]
    /\ result = [p \in Procs |-> InitialResult]
    /\ calls = [p \in Procs |-> << >>]
    /\ prev = [p \in Procs |-> NoPrev]
    /\ remote0 = [p \in Procs |-> EmptyDict]

Finished(p) == pc[p] \in {"done", "failed"}

\* lines 331-402: a task starts with parameters a and check mode cm
Begin(p, a, cm) ==
    /\ nextId <= MaxIds
    /\ pc' = [pc EXCEPT ![p] = "lookup"]
    /\ args' = [args EXCEPT ![p] = a]
    /\ module_params' = [module_params EXCEPT ![p] = NormalizeAttributes(AnsibleModule(a))]
    /\ check_mode' = [check_mode EXCEPT ![p] = cm]
    /\ before_user' = [before_user EXCEPT ![p] = EmptyDict]
    /\ changeset' = [changeset EXCEPT ![p] = EmptyDict]
    /\ desired_user' = [desired_user EXCEPT ![p] = EmptyDict]
    /\ result' = [result EXCEPT ![p] = InitialResult]
    /\ calls' = [calls EXCEPT ![p] = << >>]
    /\ remote0' = [remote0 EXCEPT ![p] = remote]
    /\ UNCHANGED <<remote, nextId>>

\* a fresh task: required_one_of demands id or name
Invoke(p) ==
    /\ pc[p] = "idle"
    /\ \E aid \in Opt("id", Ids), aname \in Opt("name", Names),
          aemail \in Opt("email", Emails), afirst \in Opt("first_name", FirstNames),
          aen \in Opt("enabled", BOOLEAN), aev \in Opt("email_verified", BOOLEAN),
          aattr \in Opt("attributes", AttributeArgs),
          st \in States, cm \in BOOLEAN :
        /\ aid # EmptyDict \/ aname # EmptyDict
        /\ Begin(p, aid @@ aname @@ aemail @@ afirst @@ aen @@ aev @@ aattr
                      @@ ("state" :> st) @@ ("token" :> "TOKEN"), cm)
    /\ prev' = [prev EXCEPT ![p] = NoPrev]

\* the same task run again right after it finished
Repeat(p) ==
    /\ Finished(p)
    /\ ~prev[p].valid
    /\ Begin(p, args[p], check_mode[p])
    /\ prev' = [prev EXCEPT ![p] =
                   [valid |-> TRUE, pc |-> pc[p], result |-> result[p],
                    before_user |-> before_user[p], desired_user |-> desired_user[p]]]

\* module.exit_json / module.fail_json: the process ends and nothing of the
\* invocation is kept
Exit(p) ==
    /\ Finished(p)
    /\ pc' = [pc EXCEPT ![p] = "idle"]
    /\ args' = [args EXCEPT ![p] = EmptyDict]
    /\ module_params' = [module_params EXCEPT ![p] = EmptyDict]
    /\ check_mode' = [check_mode EXCEPT ![p] = FALSE]
    /\ before_user' = [before_user EXCEPT ![p] = EmptyDict]
    /\ changeset' = [changeset EXCEPT ![p] = EmptyDict]
    /\ desired_user' = [desired_user EXCEPT ![p] = EmptyDict]
    /\ result' = [result EXCEPT ![p] = InitialResult]
    /\ calls' = [calls EXCEPT ![p] = << >>]
    /\ prev' = [prev EXCEPT ![p] = NoPrev]
    /\ remote0' = [remote0 EXCEPT ![p] = EmptyDict]
    /\ UNCHANGED <<remote, nextId>>

\* ---------------------------------------------------- lookup and decision
\* mutant: the name is preferred over the identifier
LookupCall_PreferName(params) ==
    IF "name" \in DOMAIN params
    THEN Call("fetchByName", ("username" :> params["name"]))
    ELSE Call("fetchById", ("id" :> params["id"]))

\* lines 404-408: by identifier when one is given, by name otherwise
LookupCall(params) ==
    IF "id" \notin DOMAIN params
    THEN Call("fetchByName", ("username" :> params["name"]))
    ELSE Call("fetchById", ("id" :> params["id"]))

Fetch(realm, c) ==
    IF c.op = "fetchByName"
    THEN get_user_by_name(realm, c.arg["username"])
    ELSE get_user_by_userid(realm, c.arg["id"])

\* module.fail_json(msg=...)
FailJson(m) == [failed |-> TRUE, msg |-> m]

\* result["end_state"] = e; result["user"] = result["end_state"]
WithEndState(res, e) == ("end_state" :> e) @@ ("user" :> e) @@ res

\* mutant: result["changed"] is never set
WithChanged_Never(res, c) == res

WithChanged(res, c) == [res EXCEPT !["changed"] = c]

WithMsg(res, m) == [res EXCEPT !["msg"] = m]

\* mutant: the check for a name is left out
NameMissing_Never(params) == FALSE

\* line 444
NameMissing(params) == "name" \notin DOMAIN params

\* line 470
NoChanges(desired, before) == desired = before

\* mutant: the name is demanded before state=absent is looked at
DecideMissing_NameFirst(params, cm, res) ==
    IF NameMissing(params)
    THEN [pc |-> "failed",
          result |-> FailJson("name must be specified when creating a new user")]
    ELSE IF params["state"] = "absent"
    THEN [pc |-> "done",
          result |-> WithMsg(WithEndState(WithChanged(res, FALSE), EmptyDict),
                             "user does not exist; doing nothing.")]
    ELSE IF cm
    THEN [pc |-> "done", result |-> res]
    ELSE [pc |-> "create", result |-> res]

\* lines 431-451: the user does not exist
DecideMissing(params, cm, res) ==
    IF params["state"] = "absent"
    THEN [pc |-> "done",
          result |-> WithMsg(WithEndState(WithChanged(res, FALSE), EmptyDict),
                             "user does not exist; doing nothing.")]
    ELSE IF NameMissing(params)
    THEN [pc |-> "failed",
          result |-> FailJson("name must be specified when creating a new user")]
    ELSE IF cm
    THEN [pc |-> "done", result |-> res]
    ELSE [pc |-> "create", result |-> res]

\* mutant: a user that exists and differs is created instead of updated
DecidePresent_CreateOnChange(params, cm, before, desired, res) ==
    IF params["state"] = "present"
    THEN IF NoChanges(desired, before)
         THEN [pc |-> "done",
               result |-> WithMsg(WithEndState(WithChanged(res, FALSE), desired),
                                  "No changes required to user {name}.")]
         ELSE IF cm
         THEN [pc |-> "done", result |-> WithChanged(res, TRUE)]
         ELSE [pc |-> "create", result |-> WithChanged(res, TRUE)]
    ELSE IF cm
    THEN [pc |-> "done", result |-> WithChanged(res, TRUE)]
    ELSE [pc |-> "delete", result |-> WithChanged(res, TRUE)]

\* mutant: the deletion branch does not look at check mode
DecidePresent_NoCheckOnDelete(params, cm, before, desired, res) ==
    IF params["state"] = "present"
    THEN IF NoChanges(desired, before)
         THEN [pc |-> "done",
               result |-> WithMsg(WithEndState(WithChanged(res, FALSE), desired),
                                  "No changes required to user {name}.")]
         ELSE IF cm
         THEN [pc |-> "done", result |-> WithChanged(res, TRUE)]
         ELSE [pc |-> "update", result |-> WithChanged(res, TRUE)]
    ELSE [pc |-> "delete", result |-> WithChanged(res, TRUE)]

\* lines 466-507: the user exists
DecidePresent(params, cm, before, desired, res) ==
    IF params["state"] = "present"
    THEN IF NoChanges(desired, before)
         THEN [pc |-> "done",
               result |-> WithMsg(WithEndState(WithChanged(res, FALSE), desired),
                                  "No changes required to user {name}.")]
         ELSE IF cm
         THEN [pc |-> "done", result |-> WithChanged(res, TRUE)]
         ELSE [pc |-> "update", result |-> WithChanged(res, TRUE)]
    ELSE IF cm
    THEN [pc |-> "done", result |-> WithChanged(res, TRUE)]
    ELSE [pc |-> "delete", result |-> WithChanged(res, TRUE)]

\* line 431
Decide(params, cm, before, desired, res) ==
    IF before = EmptyDict
    THEN DecideMissing(params, cm, res)
    ELSE DecidePresent(params, cm, before, desired, res)

\* lines 404-507 up to the first mutating call
Lookup(p) ==
    /\ pc[p] = "lookup"
    /\ LET params == module_params[p]
           c == LookupCall(params)
           before == Fetch(remote, c)
           cs == BuildChangeset(params, before)
           desired == DesiredUser(before, cs)
           d == Decide(params, check_mode[p], before, desired, result[p])
       IN  /\ calls' = [calls EXCEPT ![p] = Append(@, c)]
           /\ before_user' = [before_user EXCEPT ![p] = before]
           /\ changeset' = [changeset EXCEPT ![p] = cs]
           /\ desired_user' = [desired_user EXCEPT ![p] = desired]
           /\ pc' = [pc EXCEPT ![p] = d.pc]
           /\ result' = [result EXCEPT ![p] = d.result]
    /\ UNCHANGED <<remote, nextId, args, module_params, check_mode, prev, remote0>>

\* ------------------------------------------------------------- mutations
\* mutant: the fetched (empty) resource is sent instead of the desired one
CreateBody_Before(p) == before_user[p]

\* line 454: the body sent to create
CreateBody(p) == desired_user[p]

\* line 454
Create(p) ==
    /\ pc[p] = "create"
    /\ calls' = [calls EXCEPT ![p] = Append(@, Call("create", CreateBody(p)))]
    /\ IF CreateAccepted(remote, CreateBody(p))
       THEN /\ remote' = create_user(remote, CreateBody(p), nextId)
            /\ nextId' = nextId + 1
            /\ pc' = [pc EXCEPT ![p] = "refetch_name"]
            /\ UNCHANGED result
       ELSE /\ pc' = [pc EXCEPT ![p] = "failed"]
            /\ result' = [result EXCEPT ![p] = FailJson("Could not create user")]
            /\ UNCHANGED <<remote, nextId>>
    /\ UNCHANGED <<args, module_params, check_mode, before_user, changeset,
                   desired_user, prev, remote0>>

\* mutant: the body that was sent is reported, without a second fetch
RefetchByName_SentBody(p) ==
    /\ pc[p] = "refetch_name"
    /\ pc' = [pc EXCEPT ![p] = "done"]
    /\ result' = [result EXCEPT ![p] =
           WithChanged(WithMsg(WithEndState(@, desired_user[p]),
               "user {name} has been created with ID {id}"), TRUE)]
    /\ UNCHANGED <<remote, nextId, args, module_params, check_mode, before_user,
                   changeset, desired_user, calls, prev, remote0>>

\* lines 455-463
RefetchByName(p) ==
    /\ pc[p] = "refetch_name"
    /\ LET c == Call("fetchByName", ("username" :> module_params[p]["name"]))
           after_user == Fetch(remote, c)
       IN  /\ calls' = [calls EXCEPT ![p] = Append(@, c)]
           /\ IF after_user = EmptyDict
              THEN /\ pc' = [pc EXCEPT ![p] = "failed"]
                   /\ result' = [result EXCEPT ![p] = FailJson("TypeError")]
              ELSE /\ pc' = [pc EXCEPT ![p] = "done"]
                   /\ result' = [result EXCEPT ![p] =
                          WithChanged(WithMsg(WithEndState(@, after_user),
                              "user {name} has been created with ID {id}"), TRUE)]
    /\ UNCHANGED <<remote, nextId, args, module_params, check_mode, before_user,
                   changeset, desired_user, prev, remote0>>

\* mutant: only the changeset is sent
UpdateBody_ChangesetOnly(p) == changeset[p]

\* mutant: the changeset is laid over the resource as it is when the update
\* is sent, not as it was fetched
UpdateBody_Refetched(p) ==
    DictUpdate(get_user_by_userid(remote, before_user[p]["id"]), changeset[p])

\* line 489: the body sent to update
UpdateBody(p) == desired_user[p]

\* line 489
Update(p) ==
    /\ pc[p] = "update"
    /\ calls' = [calls EXCEPT ![p] = Append(@, Call("update", UpdateBody(p)))]
    /\ IF UpdateAccepted(remote, UpdateBody(p))
       THEN /\ remote' = update_user(remote, UpdateBody(p))
            /\ pc' = [pc EXCEPT ![p] = "refetch_id"]
            /\ UNCHANGED result
       ELSE /\ pc' = [pc EXCEPT ![p] = "failed"]
            /\ result' = [result EXCEPT ![p] = FailJson("Could not update user")]
            /\ UNCHANGED remote
    /\ UNCHANGED <<nextId, args, module_params, check_mode, before_user, changeset,
                   desired_user, prev, remote0>>

\* lines 491-497
RefetchById(p) ==
    /\ pc[p] = "refetch_id"
    /\ LET c == Call("fetchById", ("id" :> desired_user[p]["id"]))
           after_user == Fetch(remote, c)
       IN  /\ calls' = [calls EXCEPT ![p] = Append(@, c)]
           /\ IF after_user = EmptyDict
              THEN /\ pc' = [pc EXCEPT ![p] = "failed"]
                   /\ result' = [result EXCEPT ![p] = FailJson("TypeError")]
              ELSE /\ pc' = [pc EXCEPT ![p] = "done"]
                   /\ result' = [result EXCEPT ![p] =
                          WithMsg(WithEndState(@, after_user),
                                  "user {id} has been updated")]
    /\ UNCHANGED <<remote, nextId, args, module_params, check_mode, before_user,
                   changeset, desired_user, prev, remote0>>

\* mutant: the caller's id parameter is used, which is unset on lookup by name
DeleteId_Param(p) ==
    IF "id" \in DOMAIN module_params[p] THEN module_params[p]["id"] ELSE 0

\* line 510: the identifier sent to delete
DeleteId(p) == before_user[p]["id"]

\* lines 510-520
Delete(p) ==
    /\ pc[p] = "delete"
    /\ calls' = [calls EXCEPT ![p] = Append(@, Call("delete", ("id" :> DeleteId(p))))]
    /\ IF DeleteAccepted(remote, DeleteId(p))
       THEN /\ remote' = delete_user(remote, DeleteId(p))
            /\ pc' = [pc EXCEPT ![p] = "done"]
            /\ result' = [result EXCEPT ![p] =
                   WithMsg(WithEndState(@, EmptyDict), "user {name} has been deleted")]
       ELSE /\ pc' = [pc EXCEPT ![p] = "failed"]
            /\ result' = [result EXCEPT ![p] = FailJson("Could not delete user")]
            /\ UNCHANGED remote
    /\ UNCHANGED <<nextId, args, module_params, check_mode, before_user, changeset,
                   desired_user, prev, remote0>>

\* ---------------------------------------------------------- specification
Step(p) ==
    \/ Invoke(p)
    \/ Repeat(p)
    \/ Exit(p)
    \/ Lookup(p)
    \/ Create(p)
    \/ RefetchByName(p)
    \/ Update(p)
    \/ RefetchById(p)
    \/ Delete(p)

\* one task at a time
Next == \E p \in SeqProcs : Step(p)

Spec == Init /\ [][Next]_vars

\* the tasks of the racing specification: all name the same user
RaceBase == ("name" :> "drstrange") @@ ("token" :> "TOKEN")

RaceTasks ==
    { RaceBase @@ ("state" :> "present"),
      RaceBase @@ ("email" :> "x@y.com") @@ ("state" :> "present"),
      RaceBase @@ ("first_name" :> "Stephen") @@ ("state" :> "present"),
      RaceBase @@ ("state" :> "absent") }

InvokeRace(p) ==
    /\ pc[p] = "idle"
    /\ \E a \in RaceTasks : Begin(p, a, FALSE)
    /\ UNCHANGED prev

StepRace(p) ==
    \/ InvokeRace(p)
    \/ Exit(p)
    \/ Lookup(p)
    \/ Create(p)
    \/ RefetchByName(p)
    \/ Update(p)
    \/ RefetchById(p)
    \/ Delete(p)

\* two tasks run against the realm with no coordination between them
NextRace == \E p \in Procs : StepRace(p)

SpecRace == Init /\ [][NextRace]_vars

TypeOK ==
    /\ nextId \in 1..(MaxIds + 1)
    /\ \A p \in Procs : pc[p] \in {"idle", "lookup", "create", "refetch_name",
                                   "update", "refetch_id", "delete", "done", "failed"}

\* ======================================================== properties
\* the parameters of meta_args that describe the user (lines 336-354)
UserParamNames ==
    {"id", "name", "attributes", "email", "enabled", "first_name", "last_name",
     "required_actions", "credentials", "email_verified"}

\* the lookup has returned and the changeset has been built
Looked(p) == pc[p] \notin {"idle", "lookup"}

MutatingCalls(p) == SelectSeq(calls[p], LAMBDA c : c.op \in MutatingOps)

Count(p, op) == Len(SelectSeq(calls[p], LAMBDA c : c.op = op))

StatePresent(p) == module_params[p]["state"] = "present"

\* field f has the same presence and value in a and in b
SameField(f, a, b) ==
    /\ f \in DOMAIN a <=> f \in DOMAIN b
    /\ f \in DOMAIN a => a[f] = b[f]

\* the update of this invocation has been accepted by the provider
Updated(p) == pc[p] \in {"refetch_id", "done"} /\ Count(p, "update") = 1

\* ---- C1
\* the first run found the resource missing or different from what it desired
Mismatch(pr) == pr.before_user = EmptyDict \/ pr.desired_user # pr.before_user

\* the second of two successive runs of the same non-dry-run task with
\* state=present has finished
SecondRun(p) ==
    /\ Finished(p)
    /\ prev[p].valid
    /\ StatePresent(p)
    /\ ~check_mode[p]
    /\ Mismatch(prev[p])

IdempotentPair(p) ==
    /\ prev[p].pc = "done"
    /\ prev[p].result["changed"]
    /\ pc[p] = "done"
    /\ ~result[p]["changed"]
    /\ MutatingCalls(p) = << >>
    /\ result[p]["end_state"] = prev[p].result["end_state"]

\* C1 as stated: for any DesiredSpec with state=present and any initial
\* remote state that does not match it, two successive non-dry-run runs report
\* changed=true then changed=false, the second makes no mutating call and
\* end_state is the same on both.
C1_AnySpec == \A p \in Procs : SecondRun(p) => IdempotentPair(p)

\* the lookup key names the same resource on both runs: no id is supplied, or
\* the supplied id was found by the first run
StableKey(p) == "id" \notin DOMAIN args[p] \/ prev[p].before_user # EmptyDict

\* C1 (amended): when the task is looked up by name, or by the id of a resource
\* that exists, and the first run is not failed by the provider, two
\* successive non-dry-run runs with state=present against a resource that did
\* not match report changed=true then changed=false, the second run makes no
\* create/update/delete, and end_state is identical on both runs.
C1_Idempotence ==
    \A p \in Procs :
        (SecondRun(p) /\ StableKey(p) /\ prev[p].pc = "done") => IdempotentPair(p)

C1_Witness ==
    \E p \in Procs :
        /\ SecondRun(p) /\ StableKey(p) /\ prev[p].pc = "done"
        /\ prev[p].before_user # EmptyDict
        /\ "email" \in DOMAIN args[p]
        /\ pc[p] = "done"

\* ---- C2
\* the value supplied for parameter x differs from the fetched resource's
\* value of the translated field (a missing field counts as null)
Differs(x, p) ==
    \/ RemoteField(x) \notin DOMAIN before_user[p]
    \/ before_user[p][RemoteField(x)] # module_params[p][x]

\* C2: a remote field is in the Changeset if and only if its parameter is
\* supplied (non-null; a defaulted parameter is counted as supplied here) and
\* the supplied value differs from the fetched resource's value of the
\* camelCase field.
C2_ChangesetMinimal ==
    \A p \in Procs :
        Looked(p) =>
            \A x \in UserParamNames :
                RemoteField(x) \in DOMAIN changeset[p]
                    <=> (x \in DOMAIN module_params[p] /\ Differs(x, p))

\* ---- C3
OmittedUntouched(p, x) ==
    /\ RemoteField(x) \notin DOMAIN changeset[p]
    /\ Updated(p) =>
           SameField(RemoteField(x), remote[before_user[p]["id"]],
                     remote0[p][before_user[p]["id"]])

\* C3 as stated: every field the caller did not supply, enabled and
\* email_verified included, is never in the Changeset and keeps its remote
\* value through an update.
C3_EveryOmitted ==
    \A p \in Procs :
        Looked(p) =>
            \A x \in UserParamNames \ DOMAIN args[p] : OmittedUntouched(p, x)

\* the parameters the argument spec gives a default (lines 340, 354)
Defaulted == {"enabled", "email_verified"}

\* C3 (amended): every field the caller did not supply, other than enabled
\* and email_verified (which default to true and so count as supplied), is
\* never in the Changeset, and after an update its remote value equals its
\* value before the invocation.
C3_OmissionPreserved ==
    \A p \in Procs :
        Looked(p) =>
            \A x \in UserParamNames \ (DOMAIN args[p] \cup Defaulted) :
                OmittedUntouched(p, x)

C3_Witness ==
    \E p \in Procs :
        /\ Updated(p)
        /\ "email" \notin DOMAIN args[p]
        /\ "email" \in DOMAIN before_user[p]
        /\ "firstName" \in DOMAIN changeset[p]

\* ---- C4
\* C4: with the resource present, state=present and dry-run off, an empty
\* Changeset means no mutating call and changed=false, a non-empty Changeset
\* means update with the merged body and changed=true.
C4_DecisionFollowsChangeset ==
    \A p \in Procs :
        (Finished(p) /\ before_user[p] # EmptyDict /\ StatePresent(p) /\ ~check_mode[p]) =>
            IF changeset[p] = EmptyDict
            THEN MutatingCalls(p) = << >> /\ pc[p] = "done" /\ ~result[p]["changed"]
            ELSE /\ MutatingCalls(p) = << Call("update", desired_user[p]) >>
                 /\ pc[p] = "done" /\ result[p]["changed"]

\* ---- C5
\* the lookup found nothing, state=present, a name is supplied, dry-run is off
CreateCase(p) ==
    /\ Looked(p)
    /\ before_user[p] = EmptyDict
    /\ StatePresent(p)
    /\ "name" \in DOMAIN module_params[p]
    /\ ~check_mode[p]

\* every non-null user parameter under its remote field name
FullProjection(params) ==
    [f \in { RemoteField(x) : x \in DOMAIN params \cap UserParamNames } |->
        params[CHOOSE x \in DOMAIN params \cap UserParamNames : RemoteField(x) = f]]

CreateOnce(p) ==
    /\ MutatingCalls(p) = << Call("create", FullProjection(module_params[p])) >>
    /\ MutatingCalls(p)[1].arg["username"] = module_params[p]["name"]

CreateReported(p) ==
    /\ pc[p] = "done"
    /\ result[p]["changed"]
    /\ "id" \in DOMAIN result[p]["end_state"]

\* C5 as stated: in the create case the engine invokes create exactly once with
\* the full projection (username = name), no update or delete, and returns
\* changed=true with an end_state that has an id.
C5_CreateAlwaysReported ==
    \A p \in Procs : (CreateCase(p) /\ Finished(p)) => (CreateOnce(p) /\ CreateReported(p))

\* C5 (amended): in the create case the engine invokes create exactly once,
\* with the full projection of the non-null parameters (username = name), and
\* no update or delete; if no resource of the realm holds that username (always
\* so when the lookup was by name) it returns changed=true with an end_state
\* whose id is set; if the lookup was by an id that matched nothing while the
\* username is taken, the provider rejects the create, the invocation fails
\* and the realm is unchanged.
C5_Create ==
    \A p \in Procs :
        (CreateCase(p) /\ Finished(p)) =>
            /\ CreateOnce(p)
            /\ IF NameMatches(remote0[p], module_params[p]["name"]) = {}
               THEN CreateReported(p)
               ELSE pc[p] = "failed" /\ remote = remote0[p] /\ "id" \in DOMAIN args[p]

C5_Witness ==
    \E p \in Procs :
        /\ CreateCase(p) /\ CreateReported(p)
        /\ "first_name" \in DOMAIN args[p]
        /\ result[p]["end_state"]["username"] = "drstrange"

\* ---- C6
NoNameCase(p) ==
    /\ Looked(p)
    /\ before_user[p] = EmptyDict
    /\ StatePresent(p)
    /\ "name" \notin DOMAIN module_params[p]

\* C6: lookup not found, state=present and no name: the invocation fails with
\* an error, no create/update/delete has been invoked and the realm is as it
\* was.
C6_ValidationError ==
    \A p \in Procs :
        NoNameCase(p) =>
            /\ pc[p] = "failed"
            /\ result[p] = FailJson("name must be specified when creating a new user")
            /\ MutatingCalls(p) = << >>
            /\ remote = remote0[p]

C6_Witness == \E p \in Procs : NoNameCase(p) /\ pc[p] = "failed" /\ ~check_mode[p]

\* ---- C7
DeleteCase(p) ==
    /\ Looked(p)
    /\ before_user[p] # EmptyDict
    /\ module_params[p]["state"] = "absent"
    /\ ~check_mode[p]

\* C7: resource present, state=absent, dry-run off: delete is invoked exactly
\* once, with the id of the fetched resource, no create or update is invoked,
\* the result is changed=true with end_state={} and the resource is gone.
C7_Delete ==
    \A p \in Procs :
        DeleteCase(p) =>
            \/ pc[p] = "delete" /\ MutatingCalls(p) = << >>
            \/ /\ pc[p] = "done"
               /\ MutatingCalls(p) = << Call("delete", ("id" :> before_user[p]["id"])) >>
               /\ result[p]["changed"]
               /\ result[p]["end_state"] = EmptyDict
               /\ before_user[p]["id"] \notin DOMAIN remote
               /\ get_user_by_name(remote, before_user[p]["username"]) = EmptyDict

C7_Witness ==
    \E p \in Procs :
        DeleteCase(p) /\ pc[p] = "done" /\ "id" \notin DOMAIN args[p]

\* ---- C8
NothingToDeleteCase(p) ==
    /\ Looked(p)
    /\ before_user[p] = EmptyDict
    /\ module_params[p]["state"] = "absent"

\* C8: lookup not found and state=absent: no mutating call, the realm is as
\* it was, changed=false and end_state={}, whatever else is supplied.
C8_AbsentNoop ==
    \A p \in Procs :
        NothingToDeleteCase(p) =>
            /\ pc[p] = "done"
            /\ MutatingCalls(p) = << >>
            /\ remote = remote0[p]
            /\ ~result[p]["changed"]
            /\ result[p]["end_state"] = EmptyDict

C8_Witness ==
    \E p \in Procs :
        NothingToDeleteCase(p) /\ pc[p] = "done" /\ "name" \notin DOMAIN args[p]

\* ---- C9
\* the camelCase remote name of each parameter other than name
CamelCaseName ==
    [id |-> "id", attributes |-> "attributes", email |-> "email",
     enabled |-> "enabled", first_name |-> "firstName", last_name |-> "lastName",
     required_actions |-> "requiredActions", credentials |-> "credentials",
     email_verified |-> "emailVerified"]

\* C9: a supplied name is in the Changeset as username, never as name; every
\* other field of the Changeset is the camelCase form of a supplied parameter
\* and carries that parameter's value.
C9_NameTranslation ==
    \A p \in Procs :
        Looked(p) =>
            /\ "name" \in DOMAIN module_params[p] =>
                   /\ "username" \in DOMAIN changeset[p]
                   /\ changeset[p]["username"] = module_params[p]["name"]
            /\ "name" \notin DOMAIN changeset[p]
            /\ \A f \in DOMAIN changeset[p] \ {"username"} :
                   \E x \in DOMAIN module_params[p] \cap DOMAIN CamelCaseName :
                       f = CamelCaseName[x] /\ changeset[p][f] = module_params[p][x]
            /\ "username" \in DOMAIN changeset[p] => "name" \in DOMAIN module_params[p]

C9_Witness ==
    \E p \in Procs :
        /\ Looked(p)
        /\ before_user[p] # EmptyDict
        /\ "name" \in DOMAIN args[p]
        /\ "firstName" \in DOMAIN changeset[p]

\* ---- C10
\* C10: the body sent to update is the fetched resource with exactly the
\* Changeset's fields overlaid; every other fetched field, the identifier and
\* the access grants among them, is in the body with its fetched value.
C10_UpdateBody ==
    \A p \in Procs :
        \A i \in 1..Len(calls[p]) :
            calls[p][i].op = "update" =>
                LET body == calls[p][i].arg
                IN  /\ DOMAIN body = DOMAIN before_user[p] \cup DOMAIN changeset[p]
                    /\ \A f \in DOMAIN changeset[p] : body[f] = changeset[p][f]
                    /\ \A f \in DOMAIN before_user[p] \ DOMAIN changeset[p] :
                           body[f] = before_user[p][f]
                    /\ body["id"] = before_user[p]["id"]
                    /\ body["access"] = before_user[p]["access"]

C10_Witness ==
    \E p \in Procs :
        /\ Updated(p)
        /\ "email" \in DOMAIN changeset[p]
        /\ "firstName" \in DOMAIN before_user[p]
        /\ "first_name" \notin DOMAIN args[p]

\* ---- C11
\* C11: in check mode, whatever the resource and the desired state are, the
\* lookup is performed, no create/update/delete is ever invoked and the realm
\* stays as it was when the invocation started.
C11_DryRunSafety ==
    \A p \in Procs :
        check_mode[p] =>
            /\ MutatingCalls(p) = << >>
            /\ pc[p] \notin {"create", "refetch_name", "update", "refetch_id", "delete"}
            /\ remote = remote0[p]
            /\ Looked(p) =>
                   /\ Len(calls[p]) = 1
                   /\ calls[p][1].op \in {"fetchById", "fetchByName"}

C11_Witness ==
    \E p \in Procs :
        /\ check_mode[p] /\ pc[p] = "done"
        /\ before_user[p] # EmptyDict
        /\ module_params[p]["state"] = "absent"
        /\ result[p]["changed"]

\* ---- C12
\* the list form of an attribute value as the caller wrote it
AsList(val) == IF val.list THEN val.l ELSE << val.s >>

ListForm(attrs) == [k \in DOMAIN attrs |-> AttrList(AsList(attrs[k]))]

\* C12: a scalar attribute value v becomes [v] and a list stays as it is, so
\* v and [v] normalise to the same value; the diff sees the normalised value:
\* against a resource without attributes the Changeset holds the list form,
\* against a resource that already holds the list form attributes is not in
\* the Changeset.
C12_AttributeNormalization ==
    /\ \A v \in {"v1", "v2"} :
           /\ NormalizeValue(AttrScalar(v)) = NormalizeValue(AttrList(<<v>>))
           /\ NormalizeValue(AttrList(<<v>>)) = AttrList(<<v>>)
           /\ NormalizeValue(NormalizeValue(AttrScalar(v))) = NormalizeValue(AttrScalar(v))
    /\ \A p \in Procs :
           (Looked(p) /\ "attributes" \in DOMAIN args[p]) =>
               /\ module_params[p]["attributes"] = ListForm(args[p]["attributes"])
               /\ "attributes" \notin DOMAIN before_user[p] =>
                      /\ "attributes" \in DOMAIN changeset[p]
                      /\ changeset[p]["attributes"] = ListForm(args[p]["attributes"])
               /\ ("attributes" \in DOMAIN before_user[p]
                     /\ before_user[p]["attributes"] = ListForm(args[p]["attributes"])) =>
                      "attributes" \notin DOMAIN changeset[p]

C12_Witness ==
    \E p \in Procs :
        /\ Looked(p)
        /\ "attributes" \in DOMAIN args[p]
        /\ ~args[p]["attributes"]["a"].list
        /\ "attributes" \in DOMAIN before_user[p]
        /\ "attributes" \notin DOMAIN changeset[p]

\* ---- C13
\* the lookup the task asks for: by id when one is supplied, else by name
ExpectedLookup(a) ==
    IF "id" \in DOMAIN a
    THEN Call("fetchById", ("id" :> a["id"]))
    ELSE Call("fetchByName", ("username" :> a["name"]))

\* C13: every invocation makes exactly one lookup before it decides: by the
\* supplied id when there is one (also when a name is supplied too), by the
\* supplied name otherwise; the lookup leaves the realm as it was.
C13_LookupStrategy ==
    \A p \in Procs :
        /\ pc[p] = "lookup" => calls[p] = << >>
        /\ Looked(p) =>
               /\ Len(calls[p]) >= 1
               /\ calls[p][1] = ExpectedLookup(args[p])
               /\ Len(calls[p]) = 1 => remote = remote0[p]
               /\ pc[p] \in {"create", "update", "delete"} => Len(calls[p]) = 1
               /\ Len(calls[p]) >= 2 => calls[p][2].op \in MutatingOps

C13_Witness ==
    \E p \in Procs :
        /\ Looked(p)
        /\ "id" \in DOMAIN args[p] /\ "name" \in DOMAIN args[p]
        /\ before_user[p] # EmptyDict
        /\ calls[p][1].op = "fetchById"

\* ---- C14
\* C14: a non-dry-run invocation that has invoked create or update and returns
\* a result has fetched once more after the write, by name after create and by
\* the resource's id after update, and end_state is what that fetch returned.
C14_RefetchAfterWrite ==
    \A p \in Procs :
        (pc[p] = "done" /\ (Count(p, "create") > 0 \/ Count(p, "update") > 0)) =>
            /\ ~check_mode[p]
            /\ Len(calls[p]) = 3
            /\ calls[p][2].op \in {"create", "update"}
            /\ calls[p][2].op = "create" =>
                   calls[p][3] = Call("fetchByName", ("username" :> module_params[p]["name"]))
            /\ calls[p][2].op = "update" =>
                   calls[p][3] = Call("fetchById", ("id" :> before_user[p]["id"]))
            /\ result[p]["end_state"] = Fetch(remote, calls[p][3])
            /\ "id" \in DOMAIN result[p]["end_state"]

C14_Witness ==
    \E p \in Procs :
        /\ pc[p] = "done"
        /\ Count(p, "create") = 1
        /\ result[p]["end_state"] # desired_user[p]

\* ---- C15
\* the fetched resource of p with its changeset laid over it
MergedAtFetch(p) ==
    [f \in DOMAIN before_user[p] \cup DOMAIN changeset[p] |->
        IF f \in DOMAIN changeset[p] THEN changeset[p][f] ELSE before_user[p][f]]

\* C15: last write wins: whenever an update of one of two racing invocations
\* is accepted, the resource becomes the body merged from the state that
\* invocation fetched, whatever the other invocation has written since; so the
\* later update can take back a field the earlier one had set.
C15_LastWriteWins ==
    [][\A p \in Procs :
          (pc[p] = "update" /\ pc'[p] = "refetch_id") =>
              remote'[before_user[p]["id"]] = MergedAtFetch(p)]_vars

\* a lost update: p set email and was told so, q's later update of the body it
\* had merged before p wrote has removed it again
C15_Witness ==
    \E p \in Procs, q \in Procs :
        /\ p # q
        /\ pc[p] = "done" /\ pc[q] = "done"
        /\ Count(p, "update") = 1 /\ Count(q, "update") = 1
        /\ "email" \in DOMAIN changeset[p]
        /\ "email" \in DOMAIN result[p]["end_state"]
        /\ "email" \notin DOMAIN before_user[q]
        /\ "email" \notin DOMAIN remote[before_user[p]["id"]]

\* ---- C16
\* what a run without check mode reports from the same fetched state
WouldChange(p) ==
    IF before_user[p] = EmptyDict
    THEN StatePresent(p)
    ELSE ~StatePresent(p) \/ desired_user[p] # before_user[p]

\* C16: the changed flag of a dry run equals the changed flag the run without
\* check mode reports from the same realm, in all four cases.
C16_DryRunParity ==
    \A p \in Procs :
        (check_mode[p] /\ pc[p] = "done") => result[p]["changed"] = WouldChange(p)

\* ---- C17
\* some resource of the realm the invocation started on holds the username
NameTaken(p, body) ==
    "username" \in DOMAIN body /\ NameMatches(remote0[p], body["username"]) # {}

\* C17 as stated: create is never invoked with a username that a resource of
\* the realm holds at the time of the lookup.
C17_NeverCreateTaken ==
    \A p \in Procs :
        \A i \in 1..Len(calls[p]) :
            calls[p][i].op = "create" => ~NameTaken(p, calls[p][i].arg)

\* C17 (amended): after a lookup by name, create is never invoked with a
\* username that is taken; after a lookup by an id that matches nothing, create
\* is invoked with the supplied name even when a resource holds it, the
\* provider refuses it, the invocation fails and the realm is unchanged.
C17_NoDuplicateStored ==
    \A p \in Procs :
        \A i \in 1..Len(calls[p]) :
            (calls[p][i].op = "create" /\ NameTaken(p, calls[p][i].arg)) =>
                /\ "id" \in DOMAIN args[p]
                /\ args[p]["id"] \notin DOMAIN remote0[p]
                /\ pc[p] = "failed"
                /\ remote = remote0[p]

C17_Witness ==
    \E p \in Procs :
        /\ pc[p] = "failed"
        /\ Count(p, "create") = 1
        /\ NameTaken(p, desired_user[p])
        /\ "name" \in DOMAIN args[p]

\* ---- C18
\* resource r carries the value of every non-null user parameter outside K
Converged(p, r, K) ==
    \A x \in (DOMAIN module_params[p] \cap UserParamNames) \ K :
        /\ RemoteField(x) \in DOMAIN r
        /\ r[RemoteField(x)] = module_params[p][x]

\* a non-dry-run invocation has returned a result
Succeeded(p) == pc[p] = "done" /\ ~check_mode[p]

ConvergedPresent(p, K) ==
    /\ Converged(p, result[p]["end_state"], K)
    /\ result[p]["end_state"]["id"] \in DOMAIN remote
    /\ Converged(p, remote[result[p]["end_state"]["id"]], K)

\* C18 as stated: after a successful run with state=present every supplied
\* field equals the field of the remote resource and of end_state; after a
\* successful run with state=absent no resource with the supplied id or name
\* is left.
C18_AllFieldsConverge ==
    \A p \in Procs :
        Succeeded(p) =>
            IF StatePresent(p)
            THEN ConvergedPresent(p, {})
            ELSE /\ "id" \in DOMAIN args[p] => args[p]["id"] \notin DOMAIN remote
                 /\ "name" \in DOMAIN args[p] => NameMatches(remote, args[p]["name"]) = {}

\* C18 (amended): after a successful non-dry-run invocation with
\* state=present every non-null parameter equals the camelCase field (username
\* for name) of the remote resource and of end_state, except that a resource
\* created after its supplied id matched nothing carries the id the provider
\* assigned; after one with state=absent the resource the lookup names (by id
\* when an id is supplied, else by name) is absent.
C18_Convergence ==
    \A p \in Procs :
        Succeeded(p) =>
            IF StatePresent(p)
            THEN ConvergedPresent(p, IF before_user[p] = EmptyDict THEN {"id"} ELSE {})
            ELSE Fetch(remote, LookupCall(module_params[p])) = EmptyDict

C18_Witness ==
    \E p \in Procs :
        /\ Succeeded(p) /\ StatePresent(p)
        /\ Count(p, "update") = 1
        /\ "first_name" \in DOMAIN args[p]
        /\ "firstName" \notin DOMAIN before_user[p]
        /\ "attributes" \in DOMAIN args[p]

\* ---- C19
\* C19: an invocation makes at most one mutating call, only as its second
\* call after the lookup fetch, and a result returned after a mutating call
\* never says changed=false.
C19_AtMostOneMutation ==
    \A p \in Procs :
        /\ Len(MutatingCalls(p)) <= 1
        /\ \A i \in 1..Len(calls[p]) :
               calls[p][i].op \in MutatingOps =>
                   i = 2 /\ calls[p][1].op \in {"fetchById", "fetchByName"}
        /\ (pc[p] = "done" /\ MutatingCalls(p) # << >>) => result[p]["changed"]

C19_Witness ==
    \E p \in Procs :
        /\ pc[p] = "done"
        /\ Count(p, "delete") = 1
        /\ result[p]["changed"]
        /\ "id" \in DOMAIN args[p]

====
